---------------------------- MODULE Spec2Model ----------------------------
(***************************************************************************)
(* Excalibur Rain (src/main.js): the session state machine (Game), the     *)
(* spawn throttle (mousedown handler), the boundary monitor (beforeUpdate  *)
(* handler), the stick classifier (collisionStart handler) and the terrain *)
(* registration (WorldGenerator.createIsland) over an abstract physics     *)
(* world.                                                                  *)
(*                                                                         *)
(* The physics engine is external.  Its contract is modelled as: the world *)
(* is an ordered list of bodies; one Engine.update fires beforeUpdate,     *)
(* then moves every non-static body arbitrarily, then reports an arbitrary *)
(* list of collisionStart pairs.  Handlers run to completion on a single   *)
(* event queue: pc is the position inside Engine.update, and pointer,      *)
(* restart and clock events happen only at pc = "idle".                    *)
(*                                                                         *)
(* Angles are integers in milliradians, positions are integer pixels and   *)
(* times are integer milliseconds.                                         *)
(*                                                                         *)
(* Spec is the session in a window of fixed size, SpecResize the same with *)
(* resize events, SpecStartup the page load followed by the session,       *)
(* SpecTerrain the outline computed by createIsland, SpecSave saveScore    *)
(* alone and SpecAngle the stick classifier over all angles.               *)
(***************************************************************************)
EXTENDS Integers, Sequences, FiniteSets

VARIABLES
    lives,          \* Game.lives
    swordsOnScreen, \* Game.swordsOnScreen (the score counter)
    isPlaying,      \* Game.isPlaying
    lastSpawnTime,  \* Game.lastSpawnTime
    highScores,     \* Game.highScores
    storage,        \* localStorage["excalibur_scores"]: [kind, value]
    islandBody,     \* WorldGenerator.islandBody (a body id, Null before creation)
    world,          \* engine.world.bodies, in insertion order
    canvasHeight,   \* canvas.height
    now,            \* Date.now()
    pc,             \* position inside Engine.update
    pending,        \* beforeUpdate: the part of the allBodies snapshot not visited yet
    saves,          \* history: number of saveScore calls since the last reset
    recentSpawn,    \* history: the last accepted spawn while it is less than COOLDOWN
                    \* old, {} or {[time, restarted]}; restarted: Game.reset ran since
    canvasWidth,    \* canvas.width
    vertices        \* the vertices array of WorldGenerator.createIsland

vars == <<lives, swordsOnScreen, isPlaying, lastSpawnTime, highScores, storage,
          islandBody, world, canvasHeight, now, pc, pending, saves, recentSpawn,
          canvasWidth, vertices>>

---------------------------------------------------------------------------
(* Program constants *)

COOLDOWN == 500
SPAWN_Y == -500
SWORD_WIDTH == 35
SWORD_HEIGHT == 320
DEPTH == 250
MaxLives == 3
VoidMargin == 400
SurfaceInset == 150
TopAmplitude == 40
BottomAmplitude == 60
\* Math.PI * 2 and 0.8, in milliradians
TwoPi == 6283
VerticalTolerance == 800

(* Bounds of the model *)

\* at most this many blades are in the world at once
MaxBlades == 2
\* the clock stops after this many advances of ClockStep
MaxTicks == 6
\* window.innerHeight when the page loads
WindowHeight == 900
\* SpecSave: the longest stored list, the largest score, the number of saves
MaxListLen == 4
MaxScore == 2
MaxSaves == 2
\* SpecAngle: blade angles range over this many full turns either way
MaxTurns == 2
\* window.innerWidth is between 20 * MinWidthUnits and 20 * MaxWidthUnits pixels
MinWidthUnits == 9
MaxWidthUnits == 13

\* null (ids start at 1)
Null == 0
\* the sample step of createIsland
Resolution == 15
\* CONFIG.ISLAND.START_PCT and END_PCT, in percent
START_PCT == 30
END_PCT == 55
ClockStep == COOLDOWN \div 2
StartTime == 2 * COOLDOWN
MaxTime == StartTime + MaxTicks * ClockStep
\* window.innerHeight is WindowHeight or, with the window shrunk, a third of it
ShrunkHeight == WindowHeight \div 3
Heights == {WindowHeight, ShrunkHeight}
\* window.innerWidth, in twentieths so that 30% and 55% of it are whole pixels
WindowWidth == 20 * MaxWidthUnits

---------------------------------------------------------------------------
(* Sequences *)

Abs(x) == IF x < 0 THEN -x ELSE x

Min(a, b) == IF a < b THEN a ELSE b

RECURSIVE InsertDesc(_, _)
\* x placed in the descending list s before the first smaller element
InsertDesc(s, x) ==
    IF s = <<>> THEN <<x>>
    ELSE IF x > Head(s) THEN <<x>> \o s
    ELSE <<Head(s)>> \o InsertDesc(Tail(s), x)

RECURSIVE SortDesc(_)
\* Array.prototype.sort((a, b) => b - a)
SortDesc(s) ==
    IF s = <<>> THEN <<>> ELSE InsertDesc(SortDesc(Tail(s)), Head(s))

\* Array.prototype.slice(0, n)
Slice0(s, n) == SubSeq(s, 1, Min(n, Len(s)))

RECURSIVE RemoveId(_, _)
\* World.remove(engine.world, body): the body with that id leaves the list, if present
RemoveId(w, id) ==
    IF w = <<>> THEN <<>>
    ELSE IF Head(w).id = id THEN Tail(w)
    ELSE <<Head(w)>> \o RemoveId(Tail(w), id)

Ids(w) == {w[i].id : i \in 1..Len(w)}

\* the id of a newly created body: the smallest one no body of the world holds
FreshId(w) == CHOOSE i \in 1..(Len(w) + 1) :
                  i \notin Ids(w) /\ \A j \in 1..(i - 1) : j \in Ids(w)

Blades(w) == {i \in 1..Len(w) : w[i].label = "sword"}

Grounds(w) == {i \in 1..Len(w) : w[i].label = "ground"}

---------------------------------------------------------------------------
(* Bodies *)

\* Bodies.fromVertices(..., {isStatic: true, label: "ground"}) at centerY
GroundBody(id, h) ==
    [id |-> id, label |-> "ground", isStatic |-> TRUE,
     y |-> (h - SurfaceInset) + DEPTH \div 2, angle |-> 0,
     velocity |-> 0, angularVelocity |-> 0]

\* Bodies.rectangle(x, SPAWN_Y, WIDTH, HEIGHT, {label: "sword", angle: 0}) after
\* Body.setAngularVelocity(sword, (Math.random() - 0.5) * 0.02).  Velocities are
\* kept as 0 (at rest) or 1 (not at rest).
SwordBody(id) ==
    [id |-> id, label |-> "sword", isStatic |-> FALSE, y |-> SPAWN_Y, angle |-> 0,
     velocity |-> 0, angularVelocity |-> 1]

\* the nominal surface height of the island a ground body was built for
SurfaceOf(ground) == ground.y - DEPTH \div 2

\* vertical positions the engine moves a blade to: the surface of the island, the
\* boundary threshold itself and the first pixel beyond it
YLevels(w, h) ==
    {SurfaceOf(w[i]) : i \in Grounds(w)} \cup {h + VoidMargin, h + VoidMargin + 1}

\* angles the engine turns a blade to: upright, the tolerance itself (not vertical),
\* and upright again after most of a negative turn
AngleSamples == {0, VerticalTolerance, -(TwoPi - VerticalTolerance \div 2)}

\* a blade can only overlap the island between the highest surface point and the
\* lowest rock point, each extended by the blade's half extent
BladeReach == SWORD_HEIGHT \div 2 + SWORD_WIDTH \div 2 + 1

TouchesIsland(y, ground) ==
    /\ y >= SurfaceOf(ground) - TopAmplitude - BladeReach
    /\ y <= SurfaceOf(ground) + DEPTH + BottomAmplitude + BladeReach

---------------------------------------------------------------------------
(* Game *)

GameRec ==
    [lives |-> lives, swordsOnScreen |-> swordsOnScreen, isPlaying |-> isPlaying,
     lastSpawnTime |-> lastSpawnTime, highScores |-> highScores,
     storage |-> storage, saves |-> saves]

SetGame(g) ==
    /\ lives' = g.lives
    /\ swordsOnScreen' = g.swordsOnScreen
    /\ isPlaying' = g.isPlaying
    /\ lastSpawnTime' = g.lastSpawnTime
    /\ highScores' = g.highScores
    /\ storage' = g.storage
    /\ saves' = g.saves

Stored(list) == [kind |-> "array", value |-> list]

Absent == [kind |-> "absent", value |-> <<>>]

\* JSON.parse(localStorage.getItem("excalibur_scores")) || [0, 0, 0]
LoadScores(st) == IF st.kind = "absent" THEN <<0, 0, 0>> ELSE st.value

\* Game.saveScore without its slice(0, 3)
saveScore_NoTrim(g) ==
    LET kept == SortDesc(Append(g.highScores, g.swordsOnScreen))
    IN [g EXCEPT !.highScores = kept, !.storage = Stored(kept), !.saves = @ + 1]

\* Game.saveScore
saveScore(g) ==
    LET pushed == Append(g.highScores, g.swordsOnScreen)
        kept == Slice0(SortDesc(pushed), 3)
    IN [g EXCEPT !.highScores = kept, !.storage = Stored(kept), !.saves = @ + 1]

\* triggerGameOver without its saveScore call
triggerGameOver_NoSave(g) == [g EXCEPT !.isPlaying = FALSE]

\* triggerGameOver
triggerGameOver(g) == saveScore([g EXCEPT !.isPlaying = FALSE])

\* triggerLifeLoss with lives < 0 as its test
triggerLifeLoss_Below0(g) ==
    LET g1 == [g EXCEPT !.lives = @ - 1]
    IN IF g1.lives < 0 THEN triggerGameOver(g1) ELSE g1

\* triggerLifeLoss
triggerLifeLoss(g) ==
    LET g1 == [g EXCEPT !.lives = @ - 1]
    IN IF g1.lives <= 0 THEN triggerGameOver(g1) ELSE g1

\* WorldGenerator.createIsland: the world and islandBody after it
createIsland(w, island, h) ==
    LET w1 == IF island # Null THEN RemoveId(w, island) ELSE w
        id == FreshId(w1)
    IN [world |-> Append(w1, GroundBody(id, h)), islandBody |-> id]

---------------------------------------------------------------------------
(* Stick classifier *)

\* JavaScript's a % m for m > 0: the remainder takes the sign of the dividend
JsRem(a, m) == IF a >= 0 THEN a % m ELSE -((-a) % m)

\* isVertical without Math.abs
isVertical_NoAbs(a) ==
    LET angle == JsRem(a, TwoPi)
    IN angle < VerticalTolerance \/ angle > TwoPi - VerticalTolerance

\* collisionStart handler: const angle = sword.angle % (Math.PI * 2); isVertical
isVertical(a) ==
    LET angle == JsRem(a, TwoPi)
    IN Abs(angle) < VerticalTolerance \/ Abs(angle) > TwoPi - VerticalTolerance

\* the pair handler without its other.label === "ground" test
PinnedBy_AnyOther(bodyA, bodyB) ==
    LET found == bodyA.label = "sword" \/ bodyB.label = "sword"
        sword == IF bodyA.label = "sword" THEN bodyA ELSE bodyB
    IN IF found /\ ~sword.isStatic /\ isVertical(sword.angle)
       THEN sword.id ELSE Null

\* collisionStart handler, one pair: the sword, if the pair pins it, else Null
PinnedBy(bodyA, bodyB) ==
    LET found == bodyA.label = "sword" \/ bodyB.label = "sword"
        sword == IF bodyA.label = "sword" THEN bodyA ELSE bodyB
        other == IF bodyA.label = "sword" THEN bodyB ELSE bodyA
    IN IF found /\ ~sword.isStatic /\ other.label = "ground"
          /\ isVertical(sword.angle)
       THEN sword.id ELSE Null

\* Body.setStatic(sword, true) on the body with that id
SetStatic(w, id) ==
    [i \in 1..Len(w) |-> IF w[i].id = id THEN [w[i] EXCEPT !.isStatic = TRUE] ELSE w[i]]

\* Body.setVelocity(sword, {x: 0, y: 0}) and Body.setAngularVelocity(sword, 0)
StopBody(w, id) ==
    [i \in 1..Len(w) |->
        IF w[i].id = id THEN [w[i] EXCEPT !.velocity = 0, !.angularVelocity = 0]
        ELSE w[i]]

\* the isVertical branch without the two velocity calls
pinSword_KeepsVelocity(w, id) == SetStatic(w, id)

\* the isVertical branch: the sword is made static and stopped
pinSword(w, id) == StopBody(SetStatic(w, id), id)

---------------------------------------------------------------------------
(* Initial state: the script has run to the end of section 7 *)

\* what localStorage may hold at startup
StoredAtStart == {Absent, Stored(<<0, 2, 1, 2>>)}

Init ==
    /\ storage \in StoredAtStart
    /\ highScores = LoadScores(storage)
    /\ lives = MaxLives
    /\ swordsOnScreen = 0
    /\ isPlaying = TRUE
    /\ lastSpawnTime = 0
    /\ canvasHeight = WindowHeight
    /\ world = createIsland(<<>>, Null, WindowHeight).world
    /\ islandBody = createIsland(<<>>, Null, WindowHeight).islandBody
    /\ now = StartTime
    /\ pc = "idle"
    /\ pending = <<>>
    /\ saves = 0
    /\ recentSpawn = {}
    /\ canvasWidth = WindowWidth
    /\ vertices = <<>>

---------------------------------------------------------------------------
(* Events at pc = "idle" *)

\* the wall clock advances
AdvanceClock ==
    /\ pc = "idle"
    /\ now + ClockStep <= MaxTime
    /\ now' = now + ClockStep
    /\ recentSpawn' = {r \in recentSpawn : now' - r.time < COOLDOWN}
    /\ UNCHANGED <<lives, swordsOnScreen, isPlaying, lastSpawnTime, highScores,
                   storage, islandBody, world, canvasHeight, pc, pending, saves>>
    /\ UNCHANGED <<canvasWidth, vertices>>

\* the mousedown guard without its isPlaying test
SpawnAccepted_NoPlayingTest(g, t) == ~(t - g.lastSpawnTime < COOLDOWN)

\* the mousedown guard without its cooldown test
SpawnAccepted_NoCooldownTest(g, t) == g.isPlaying

\* the mousedown guard
SpawnAccepted(g, t) == g.isPlaying /\ ~(t - g.lastSpawnTime < COOLDOWN)

\* spawnSword: the world and the game after it
spawnSword(w, g) ==
    [world |-> Append(w, SwordBody(FreshId(w))),
     game |-> [g EXCEPT !.swordsOnScreen = @ + 1]]

\* canvas mousedown handler (clicks are taken while fewer than MaxBlades blades are
\* in the world)
MouseDown ==
    /\ pc = "idle"
    /\ Cardinality(Blades(world)) < MaxBlades
    /\ IF SpawnAccepted(GameRec, now)
       THEN LET r == spawnSword(world, GameRec)
            IN /\ world' = r.world
               /\ SetGame([r.game EXCEPT !.lastSpawnTime = now])
               /\ recentSpawn' = {[time |-> now, restarted |-> FALSE]}
       ELSE UNCHANGED <<lives, swordsOnScreen, isPlaying, lastSpawnTime, highScores,
                        storage, saves, world, recentSpawn>>
    /\ UNCHANGED <<islandBody, canvasHeight, now, pc, pending>>
    /\ UNCHANGED <<canvasWidth, vertices>>

\* resizeCanvas, on the window's resize event
Resize ==
    /\ pc = "idle"
    /\ canvasHeight' \in Heights \ {canvasHeight}
    /\ UNCHANGED <<lives, swordsOnScreen, isPlaying, lastSpawnTime, highScores,
                   storage, islandBody, world, now, pc, pending, saves, recentSpawn>>
    /\ UNCHANGED <<canvasWidth, vertices>>

\* Game.reset: the game after it
resetGame(g) ==
    [g EXCEPT !.lives = 3, !.swordsOnScreen = 0, !.isPlaying = TRUE,
              !.lastSpawnTime = 0, !.saves = 0]

\* Game.reset without World.clear
resetWorld_NoClear(w, island, h) == createIsland(w, island, h)

\* Game.reset without WorldGenerator.createIsland
resetWorld_NoIsland(w, island, h) == [world |-> <<>>, islandBody |-> island]

\* Game.reset: the world and islandBody after World.clear and createIsland
resetWorld(w, island, h) == createIsland(<<>>, island, h)

\* Game.reset (the restart button, window.restartGame)
Reset ==
    /\ pc = "idle"
    /\ SetGame(resetGame(GameRec))
    /\ world' = resetWorld(world, islandBody, canvasHeight).world
    /\ islandBody' = resetWorld(world, islandBody, canvasHeight).islandBody
    /\ recentSpawn' = {[r EXCEPT !.restarted = TRUE] : r \in recentSpawn}
    /\ UNCHANGED <<canvasHeight, now, pc, pending>>
    /\ UNCHANGED <<canvasWidth, vertices>>

---------------------------------------------------------------------------
(* Engine.update, called by render *)

\* Composite.allBodies(engine.world): a copy of the body list
allBodies(w) == w

\* the beforeUpdate handler without its isPlaying test
BeforeUpdate_NoGuard ==
    /\ pc = "idle"
    /\ pc' = "beforeUpdate"
    /\ pending' = allBodies(world)
    /\ UNCHANGED <<lives, swordsOnScreen, isPlaying, lastSpawnTime, highScores,
                   storage, islandBody, world, canvasHeight, now, saves, recentSpawn>>
    /\ UNCHANGED <<canvasWidth, vertices>>

\* beforeUpdate handler up to the forEach
BeforeUpdate ==
    /\ pc = "idle"
    /\ IF ~isPlaying
       THEN pc' = "update" /\ pending' = <<>>
       ELSE pc' = "beforeUpdate" /\ pending' = allBodies(world)
    /\ UNCHANGED <<lives, swordsOnScreen, isPlaying, lastSpawnTime, highScores,
                   storage, islandBody, world, canvasHeight, now, saves, recentSpawn>>
    /\ UNCHANGED <<canvasWidth, vertices>>

\* the forEach callback's test
FellIntoVoid(body, h) == body.label = "sword" /\ body.y > h + VoidMargin

\* the forEach callback's body without Game.swordsOnScreen--
removeFallen_NoCount(w, g, body) ==
    [world |-> RemoveId(w, body.id), game |-> triggerLifeLoss(g)]

\* the forEach callback's body: the world and the game after it
removeFallen(w, g, body) ==
    [world |-> RemoveId(w, body.id),
     game |-> triggerLifeLoss([g EXCEPT !.swordsOnScreen = @ - 1])]

\* a forEach that steps over the body after the visited one, as an index into the
\* live body list does once the visited body has been removed from it
restOfSnapshot_SkipsNext(snapshot) ==
    IF Len(snapshot) >= 2 THEN Tail(Tail(snapshot)) ELSE <<>>

\* the bodies the forEach still has to visit after this one
restOfSnapshot(snapshot) == Tail(snapshot)

\* beforeUpdate handler, one forEach callback
VisitBody ==
    /\ pc = "beforeUpdate"
    /\ pending # <<>>
    /\ IF FellIntoVoid(Head(pending), canvasHeight)
       THEN LET r == removeFallen(world, GameRec, Head(pending))
            IN world' = r.world /\ SetGame(r.game)
       ELSE UNCHANGED <<lives, swordsOnScreen, isPlaying, lastSpawnTime, highScores,
                        storage, saves, world>>
    /\ pending' = restOfSnapshot(pending)
    /\ pc' = IF pending' = <<>> THEN "update" ELSE "beforeUpdate"
    /\ UNCHANGED <<islandBody, canvasHeight, now, recentSpawn>>
    /\ UNCHANGED <<canvasWidth, vertices>>

\* the engine integrates one non-static body
MoveBody ==
    /\ pc = "update"
    /\ \E i \in 1..Len(world), y \in YLevels(world, canvasHeight), a \in AngleSamples :
          /\ ~world[i].isStatic
          /\ world' = [world EXCEPT ![i].y = y, ![i].angle = a,
                                    ![i].velocity = 1, ![i].angularVelocity = 1]
    /\ UNCHANGED <<lives, swordsOnScreen, isPlaying, lastSpawnTime, highScores,
                   storage, islandBody, canvasHeight, now, pc, pending, saves,
                   recentSpawn>>
    /\ UNCHANGED <<canvasWidth, vertices>>

\* pairs the engine can report: two bodies not both static, a blade meeting the
\* island only where it can overlap it
CanCollide(a, b) ==
    /\ a.id # b.id
    /\ ~(a.isStatic /\ b.isStatic)
    /\ (a.label = "ground" => TouchesIsland(b.y, a))
    /\ (b.label = "ground" => TouchesIsland(a.y, b))

\* collisionStart handler, one pair of event.pairs
CollisionPair ==
    /\ pc \in {"update", "collisionStart"}
    /\ pc' = "collisionStart"
    /\ \E i, j \in 1..Len(world) :
          /\ CanCollide(world[i], world[j])
          /\ LET id == PinnedBy(world[i], world[j])
             IN world' = IF id # Null THEN pinSword(world, id) ELSE world
    /\ UNCHANGED <<lives, swordsOnScreen, isPlaying, lastSpawnTime, highScores,
                   storage, islandBody, canvasHeight, now, pending, saves,
                   recentSpawn>>
    /\ UNCHANGED <<canvasWidth, vertices>>

\* Engine.update returns
EndUpdate ==
    /\ pc \in {"update", "collisionStart"}
    /\ pc' = "idle"
    /\ UNCHANGED <<lives, swordsOnScreen, isPlaying, lastSpawnTime, highScores,
                   storage, islandBody, world, canvasHeight, now, pending, saves,
                   recentSpawn>>
    /\ UNCHANGED <<canvasWidth, vertices>>

Next ==
    \/ AdvanceClock
    \/ MouseDown
    \/ Reset
    \/ BeforeUpdate
    \/ VisitBody
    \/ MoveBody
    \/ CollisionPair
    \/ EndUpdate

Spec == Init /\ [][Next]_vars

\* the same session in a window that the user resizes
NextResize ==
    \/ Next
    \/ Resize

SpecResize == Init /\ [][NextResize]_vars

---------------------------------------------------------------------------
(* Game.saveScore on its own: any stored list, any score *)

ScoreLists == UNION {[1..n -> 0..MaxScore] : n \in 0..MaxListLen}

InitSave ==
    /\ storage \in {Stored(list) : list \in ScoreLists}
    /\ highScores = LoadScores(storage)
    /\ swordsOnScreen \in 0..MaxScore
    /\ lives = MaxLives
    /\ isPlaying = TRUE
    /\ lastSpawnTime = 0
    /\ canvasHeight = WindowHeight
    /\ world = createIsland(<<>>, Null, WindowHeight).world
    /\ islandBody = createIsland(<<>>, Null, WindowHeight).islandBody
    /\ now = StartTime
    /\ pc = "idle"
    /\ pending = <<>>
    /\ saves = 0
    /\ recentSpawn = {}
    /\ canvasWidth = WindowWidth
    /\ vertices = <<>>

\* Game.saveScore()
SaveScoreCall ==
    /\ pc = "idle"
    /\ saves < MaxSaves
    /\ SetGame(saveScore(GameRec))
    /\ UNCHANGED <<islandBody, world, canvasHeight, now, pc, pending, recentSpawn>>
    /\ UNCHANGED <<canvasWidth, vertices>>

NextSave == SaveScoreCall

SpecSave == InitSave /\ [][NextSave]_vars

---------------------------------------------------------------------------
(* The stick classifier on its own: one blade on the island at any angle *)

AngleRange == (-(MaxTurns * TwoPi))..(MaxTurns * TwoPi)

InitAngle ==
    /\ \E a \in AngleRange :
          world = Append(createIsland(<<>>, Null, WindowHeight).world,
                         [SwordBody(2) EXCEPT !.y = WindowHeight - SurfaceInset,
                                              !.angle = a])
    /\ islandBody = createIsland(<<>>, Null, WindowHeight).islandBody
    /\ storage = Absent
    /\ highScores = LoadScores(storage)
    /\ swordsOnScreen = 1
    /\ lives = MaxLives
    /\ isPlaying = TRUE
    /\ lastSpawnTime = StartTime
    /\ canvasHeight = WindowHeight
    /\ now = StartTime
    /\ pc = "update"
    /\ pending = <<>>
    /\ saves = 0
    /\ recentSpawn = {[time |-> StartTime, restarted |-> FALSE]}
    /\ canvasWidth = WindowWidth
    /\ vertices = <<>>

NextAngle == CollisionPair

SpecAngle == InitAngle /\ [][NextAngle]_vars

---------------------------------------------------------------------------
(* Properties *)

NumBlades(w) == Cardinality(Blades(w))

\* the step is a pointer-down that created a blade
SpawnStep == MouseDown /\ world' # world

\* C1: a pointer-down at time now creates a blade if and only if isPlaying holds and
\* now - lastSpawnTime >= COOLDOWN.  An accepted one appends exactly one blade body
\* to the world, adds 1 to swordsOnScreen and sets lastSpawnTime to now; a rejected
\* one leaves the world, the score, lives, lastSpawnTime and highScores unchanged.
C1_SpawnContract ==
    [][MouseDown =>
        IF isPlaying /\ now - lastSpawnTime >= COOLDOWN
        THEN /\ Len(world') = Len(world) + 1
             /\ SubSeq(world', 1, Len(world)) = world
             /\ world'[Len(world')].label = "sword"
             /\ ~world'[Len(world')].isStatic
             /\ world'[Len(world')].y = SPAWN_Y
             /\ world'[Len(world')].id \notin Ids(world)
             /\ swordsOnScreen' = swordsOnScreen + 1
             /\ lastSpawnTime' = now
             /\ UNCHANGED <<lives, isPlaying, highScores, storage>>
        ELSE UNCHANGED <<world, swordsOnScreen, lives, lastSpawnTime, highScores,
                         isPlaying, storage>>]_vars

\* C1 witness: a second blade has just been accepted, a cooldown after the first
C1_Witness ==
    /\ pc = "idle"
    /\ lastSpawnTime = now
    /\ now >= StartTime + COOLDOWN
    /\ swordsOnScreen = 2
    /\ \E i \in Blades(world) : world[i].y = SPAWN_Y

\* C2 as stated: in every execution, restarts included, an accepted spawn is never
\* less than COOLDOWN after the previous accepted spawn.
C2_Original == [][SpawnStep => recentSpawn = {}]_vars

\* C2 amended: an accepted spawn is never less than COOLDOWN after the previous
\* accepted spawn unless Game.reset ran between the two.
C2_CooldownWithinSession ==
    [][SpawnStep => \A r \in recentSpawn : r.restarted]_vars

\* C2 witness: a click inside the cooldown window of an accepted spawn of this
\* session has been handled, and the world holds that single blade
C2_Witness ==
    /\ pc = "idle"
    /\ isPlaying
    /\ recentSpawn = {[time |-> lastSpawnTime, restarted |-> FALSE]}
    /\ now = lastSpawnTime + ClockStep
    /\ NumBlades(world) = 1

\* the boundary test as the claims state it
ExceedsThreshold(body) ==
    body.label = "sword" /\ body.y > canvasHeight + VoidMargin

FallenIn(seq) == {seq[i] : i \in {j \in 1..Len(seq) : ExceedsThreshold(seq[j])}}

DistinctIds(seq) == \A i, j \in 1..Len(seq) : i # j => seq[i].id # seq[j].id

\* every blade beyond the threshold that is in the world is still to be visited,
\* once, and no other one is: when nothing is left to visit, none is in the world
NoneSkipped == DistinctIds(pending) /\ FallenIn(world) = FallenIn(pending)

\* what one visit of the boundary check does to the visited body
VisitEffect ==
    LET body == Head(pending)
    IN IF ExceedsThreshold(body)
       THEN /\ body.id \in Ids(world)
            /\ world' = SelectSeq(world, LAMBDA b : b.id # body.id)
            /\ swordsOnScreen' = swordsOnScreen - 1
            /\ lives' = lives - 1
       ELSE UNCHANGED <<world, swordsOnScreen, lives, isPlaying, highScores, storage>>

\* C3 as stated: on every simulation step every blade beyond canvasHeight + 400 is
\* processed exactly once (removed, score - 1, lives - 1), the others are left alone.
C3_Original ==
    [][(BeforeUpdate \/ VisitBody) => NoneSkipped' /\ (VisitBody => VisitEffect)]_vars

\* C3 amended: on every simulation step that starts while isPlaying is true, every
\* blade beyond canvasHeight + 400 is processed exactly once (removed from the world,
\* score - 1, lives - 1), blades at or above the threshold are left untouched, and the
\* removals neither skip nor repeat a body of the snapshot.
C3_BoundaryCheckWhilePlaying ==
    [][((BeforeUpdate /\ isPlaying) \/ VisitBody)
           => NoneSkipped' /\ (VisitBody => VisitEffect)]_vars

\* C3 witness: one blade has been removed, and the boundary check is about to visit
\* a blade that is exactly at the threshold
C3_Witness ==
    /\ pc = "beforeUpdate"
    /\ Len(pending) = 1
    /\ Head(pending).label = "sword"
    /\ Head(pending).y = canvasHeight + VoidMargin
    /\ lives = MaxLives - 1
    /\ swordsOnScreen = 1

\* C4: lives is in 0..MaxLives in every reachable state.
C4_LivesInRange == lives \in 0..MaxLives

\* the saved list is the three largest of the pool, in descending order
IsTop3Of(list, pool) ==
    LET count(q, v) == Cardinality({i \in 1..Len(q) : q[i] = v})
        values == {pool[i] : i \in 1..Len(pool)} \cup {list[i] : i \in 1..Len(list)}
    IN /\ Len(list) = Min(3, Len(pool))
       /\ \A i \in 1..(Len(list) - 1) : list[i] >= list[i + 1]
       /\ \A v \in values : count(list, v) <= count(pool, v)
       /\ \A v \in values :
             count(list, v) < count(pool, v) => \A i \in 1..Len(list) : list[i] >= v

\* the step persists the score it leaves: pushed, sorted, trimmed and stored
SavesScore ==
    /\ IsTop3Of(highScores', Append(highScores, swordsOnScreen'))
    /\ storage' = Stored(highScores')
    /\ saves' = saves + 1

\* C5: a life loss in Playing that brings lives to 0 or below ends the session
\* (isPlaying becomes false) and persists the current score in the same transition,
\* and no step leaves Playing without that save.
C5_GameOverSaves ==
    [][((isPlaying /\ lives' < lives /\ lives' <= 0) => ~isPlaying' /\ SavesScore)
       /\ ((isPlaying /\ ~isPlaying') => SavesScore /\ lives' < lives /\ lives' <= 0)]_vars

\* C5 witness: the session has ended with one blade left, and that score is stored
C5_Witness ==
    /\ ~isPlaying
    /\ lives = 0
    /\ saves = 1
    /\ swordsOnScreen = 1
    /\ storage = Stored(highScores)
    /\ \E i \in 1..Len(highScores) : highScores[i] = 1

\* C6: after every saveScore, highScores is in descending order and has at most 3
\* entries, whatever list was held before; it is the top 3 of the previous list
\* plus the current score.
C6_SaveKeepsTop3 ==
    [][saves' = saves + 1 =>
          /\ Len(highScores') <= 3
          /\ IsTop3Of(highScores', Append(highScores, swordsOnScreen'))
          /\ storage' = Stored(highScores')]_vars

\* C6 witness: a save has kept three distinct scores, the current one among them
C6_Witness ==
    /\ saves = 1
    /\ Len(highScores) = 3
    /\ highScores[1] > highScores[2]
    /\ highScores[2] > highScores[3]
    /\ highScores[2] = swordsOnScreen

\* the state every restart yields
FreshSession ==
    /\ lives = 3
    /\ swordsOnScreen = 0
    /\ isPlaying
    /\ lastSpawnTime = 0
    /\ Blades(world) = {}
    /\ Cardinality(Grounds(world)) = 1
    /\ Len(world) = 1

\* C7: Game.reset from any reachable state yields lives = 3, score = 0, isPlaying,
\* lastSpawnTime = 0, no blade and exactly one terrain body; a second reset in a row
\* yields that state again, changing nothing.
C7_ResetIdempotent ==
    [][Reset => FreshSession' /\ (FreshSession => UNCHANGED vars)]_vars

\* C7 witness: a session that ended with one blade left has been restarted
C7_Witness ==
    /\ FreshSession
    /\ pc = "idle"
    /\ highScores = <<1, 0, 0>>
    /\ storage = Stored(highScores)
    /\ saves = 0

\* C8: the world always holds exactly one body labelled ground, the one
\* WorldGenerator.islandBody refers to.
C8_OneTerrainBody ==
    /\ Cardinality(Grounds(world)) = 1
    /\ \A i \in Grounds(world) : world[i].id = islandBody /\ world[i].isStatic

\* C8 witness: after a game over and a restart, blades are in the world again
C8_Witness ==
    /\ lives = MaxLives
    /\ storage.kind = "array"
    /\ Len(highScores) = 3
    /\ saves = 0
    /\ NumBlades(world) = MaxBlades
    /\ \E i \in Blades(world) : world[i].isStatic

\* the angle brought into [0, 2 pi)
Normalize(a) == a % TwoPi

\* the specified classifier, on a normalized angle
VerticalBySpec(theta) ==
    theta < VerticalTolerance \/ theta > TwoPi - VerticalTolerance

\* the pair pins a: a is a moving blade, b is the ground, a is within tolerance
ShouldPin(a, b) ==
    /\ a.label = "sword"
    /\ ~a.isStatic
    /\ b.label = "ground"
    /\ VerticalBySpec(Normalize(a.angle))

PinTarget(a, b) ==
    IF ShouldPin(a, b) THEN a.id ELSE IF ShouldPin(b, a) THEN b.id ELSE Null

\* the world after the handler has seen the pair, as the claim has it
ClaimedOutcome(w, i, j) ==
    [k \in 1..Len(w) |->
        IF w[k].id = PinTarget(w[i], w[j])
        THEN [w[k] EXCEPT !.isStatic = TRUE, !.velocity = 0, !.angularVelocity = 0]
        ELSE w[k]]

C10_VerticalityMatchesSpec ==
    pc = "collisionStart" =>
        \A i \in Blades(world) :
            /\ world[i].isStatic <=> VerticalBySpec(Normalize(world[i].angle))
            /\ world[i].angle = VerticalTolerance - 1 => world[i].isStatic
            /\ world[i].angle \in {VerticalTolerance, VerticalTolerance + 1}
                  => ~world[i].isStatic

\* C10 witness: a blade more than a full negative turn around has been pinned
C10_Witness ==
    /\ pc = "collisionStart"
    /\ \E i \in Blades(world) :
          /\ world[i].isStatic
          /\ world[i].angle < -TwoPi - VerticalTolerance

\* a pinned blade of world w
Pinned(w) == {i \in Blades(w) : w[i].isStatic}

\* C11: within a session a pinned blade stays in the world and stays pinned, and a
\* life is lost only for a blade that was not pinned.
C11_PinnedStays ==
    [][Reset \/
       /\ \A i \in Pinned(world) :
             \E j \in Pinned(world') : world'[j].id = world[i].id
       /\ (lives' < lives =>
             \E i \in Blades(world) \ Pinned(world) : world[i].id \notin Ids(world'))]_vars

\* scenario A: the clock has not moved since the page loaded, so the drop accepted
\* at this time is the only one of its session, and its blade is pinned
ScenarioA ==
    /\ now = StartTime
    /\ lastSpawnTime = StartTime
    /\ Pinned(world) # {}

\* C12: when a blade collides with the ground and is pinned, it becomes static
\* with linear and angular velocity zero and stays in the world at its place; in
\* the session whose only blade it is the score is 1 (one more than before the
\* spawn) and lives is still 3; the collision handler changes none of lives,
\* score, isPlaying, lastSpawnTime and highScores.
C12_PinEffect ==
    /\ [](ScenarioA => swordsOnScreen = 1 /\ lives = MaxLives /\ NumBlades(world) = 1)
    /\ [][CollisionPair =>
            /\ UNCHANGED <<lives, swordsOnScreen, isPlaying, lastSpawnTime, highScores>>
            /\ Len(world') = Len(world)
            /\ \A k \in 1..Len(world) :
                  IF k \in Pinned(world') \ Pinned(world)
                  THEN world'[k] = [world[k] EXCEPT !.isStatic = TRUE, !.velocity = 0,
                                                     !.angularVelocity = 0]
                  ELSE world'[k] = world[k]]_vars

C12_Witness ==
    /\ pc = "collisionStart"
    /\ ScenarioA
    /\ \E k \in Pinned(world) :
          world[k].angle = 0 /\ world[k].velocity = 0 /\ world[k].angularVelocity = 0
    /\ swordsOnScreen = 1
    /\ lives = MaxLives

---------------------------------------------------------------------------
(* Page load: the script's top level, from the Game initializer to render() *)

\* a stored text that JSON.parse rejects
Unparseable == [kind |-> "unparseable", value |-> <<>>]

\* a stored text that parses to a truthy value without join, such as {} or 7
NotArray == [kind |-> "notArray", value |-> <<>>]

\* what localStorage may hold when the page loads
StoredAtLoad == StoredAtStart \cup {Unparseable, NotArray}

\* before the script runs: no Game object, an empty engine.world
InitStartup ==
    /\ storage \in StoredAtLoad
    /\ highScores = <<>>
    /\ lives = MaxLives
    /\ swordsOnScreen = 0
    /\ isPlaying = TRUE
    /\ lastSpawnTime = 0
    /\ canvasHeight = WindowHeight
    /\ world = <<>>
    /\ islandBody = Null
    /\ now = StartTime
    /\ pc = "load"
    /\ pending = <<>>
    /\ saves = 0
    /\ recentSpawn = {}
    /\ canvasWidth = WindowWidth
    /\ vertices = <<>>

\* JSON.parse of the stored text throws a SyntaxError
ParseThrows(st) == st.kind = "unparseable"

\* highScores.join of Game.updateUI throws a TypeError
JoinThrows(st) == st.kind = "notArray"

\* the top level of the script: the Game initializer, WorldGenerator.createIsland(),
\* Game.updateUI() and render().  An uncaught error ends the script where it is
\* thrown: pc = "crashed", and no frame is ever requested.
Startup ==
    /\ pc = "load"
    /\ IF ParseThrows(storage)
       THEN /\ pc' = "crashed"
            /\ UNCHANGED <<highScores, world, islandBody>>
       ELSE /\ highScores' = LoadScores(storage)
            /\ world' = createIsland(world, islandBody, canvasHeight).world
            /\ islandBody' = createIsland(world, islandBody, canvasHeight).islandBody
            /\ pc' = IF JoinThrows(storage) THEN "crashed" ELSE "idle"
    /\ UNCHANGED <<lives, swordsOnScreen, isPlaying, lastSpawnTime, storage,
                   canvasHeight, now, pending, saves, recentSpawn>>
    /\ UNCHANGED <<canvasWidth, vertices>>

NextStartup ==
    \/ Startup
    \/ Next

SpecStartup == InitStartup /\ [][NextStartup]_vars

\* C13: once the page has loaded with the persisted entry absent or corrupt,
\* highScores is [0,0,0], the session is Playing and no error has escaped.
C13_CorruptDefaults ==
    [][Startup /\ storage.kind # "array" =>
          /\ highScores' = <<0, 0, 0>>
          /\ pc' = "idle"
          /\ isPlaying']_vars

---------------------------------------------------------------------------
(* WorldGenerator.createIsland: the outline of the island *)

\* what simplex.noise2D returns: the two ends and the middle of its range [-1, 1]
Noise == {-1, 0, 1}

\* the top pass: for (let x = 0; x <= width; x += resolution)
RECURSIVE TopLoop(_, _)
TopLoop(x, width) ==
    IF x <= width THEN <<x>> \o TopLoop(x + Resolution, width) ELSE <<>>

\* the bottom pass: for (let x = width; x >= 0; x -= resolution)
RECURSIVE BottomLoop(_)
BottomLoop(x) ==
    IF x >= 0 THEN <<x>> \o BottomLoop(x - Resolution) ELSE <<>>

TopXs(width) == TopLoop(0, width)

\* a bottom pass that walks left to right like the top pass
BottomXs_Forward(width) == TopLoop(0, width)

BottomXs(width) == BottomLoop(width)

\* CONFIG.ISLAND.DEPTH * Math.sin((x / width) * Math.PI), in whole pixels, with
\* Bhaskara's rational approximation sin(pi t) = 16 t (1 - t) / (5 - 4 t (1 - t)),
\* which is 0 at both ends, 1 in the middle and within 0.002 of the sine between
Belly(x, width) ==
    (DEPTH * 16 * x * (width - x)) \div (5 * width * width - 4 * x * (width - x))

\* const y = surfaceY + CONFIG.ISLAND.DEPTH * arc + noise * 60
BottomY(surfaceY, x, width, noise) ==
    surfaceY + Belly(x, width) + noise * BottomAmplitude

\* startX, endX and width of createIsland
StartX(cw) == (cw * START_PCT) \div 100
EndX(cw) == (cw * END_PCT) \div 100
IslandWidth(cw) == EndX(cw) - StartX(cw)

\* the vertices array createIsland builds for a canvas cw wide and h high, with
\* topNoise[k] and bottomNoise[k] the noise of the k-th sample of each pass
IslandVertices(cw, h, topNoise, bottomNoise) ==
    LET surfaceY == h - SurfaceInset
        width == IslandWidth(cw)
        tops == TopXs(width)
        bottoms == BottomXs(width)
    IN [k \in 1..Len(tops) |->
            [x |-> StartX(cw) + tops[k], y |-> surfaceY + topNoise[k] * TopAmplitude]]
       \o
       [k \in 1..Len(bottoms) |->
            [x |-> StartX(cw) + bottoms[k],
             y |-> BottomY(surfaceY, bottoms[k], width, bottomNoise[k])]]

CanvasWidths == {20 * k : k \in MinWidthUnits..MaxWidthUnits}

InitTerrain ==
    /\ canvasWidth \in CanvasWidths
    /\ canvasHeight = WindowHeight
    /\ vertices = <<>>
    /\ pc = "idle"
    /\ storage = Absent
    /\ highScores = LoadScores(storage)
    /\ lives = MaxLives
    /\ swordsOnScreen = 0
    /\ isPlaying = TRUE
    /\ lastSpawnTime = 0
    /\ world = <<>>
    /\ islandBody = Null
    /\ now = StartTime
    /\ pending = <<>>
    /\ saves = 0
    /\ recentSpawn = {}

\* the two loops of createIsland, for every noise the generator can return
BuildVertices ==
    /\ vertices = <<>>
    /\ \E topNoise \in [1..Len(TopXs(IslandWidth(canvasWidth))) -> Noise],
          bottomNoise \in [1..Len(BottomXs(IslandWidth(canvasWidth))) -> Noise] :
          vertices' = IslandVertices(canvasWidth, canvasHeight, topNoise, bottomNoise)
    /\ UNCHANGED <<lives, swordsOnScreen, isPlaying, lastSpawnTime, highScores, storage,
                   islandBody, world, canvasHeight, now, pc, pending, saves,
                   recentSpawn, canvasWidth>>

NextTerrain == BuildVertices

SpecTerrain == InitTerrain /\ [][NextTerrain]_vars

\* the number of top-pass points of the outline built for the current canvas
NumTop == Len(TopXs(IslandWidth(canvasWidth)))

\* the indices of the bottom-pass points in vertices
BottomPoints == (NumTop + 1)..Len(vertices)

\* C14: every bottom-pass point of a generated outline is at or below the
\* nominal surface height (y >= surfaceY), the end points of the span included.
C14_BottomBelowSurface ==
    \A k \in BottomPoints : vertices[k].y >= canvasHeight - SurfaceInset

\* the square of the distance between two points
Dist2(p, q) == (p.x - q.x) * (p.x - q.x) + (p.y - q.y) * (p.y - q.y)

\* the four points where the two passes meet
FirstTop == vertices[1]
LastTop == vertices[NumTop]
FirstBottom == vertices[NumTop + 1]
LastBottom == vertices[Len(vertices)]

C16_ScoreCountsBlades ==
    /\ swordsOnScreen = NumBlades(world)
    /\ swordsOnScreen >= 0

\* a blade has been lost and another one is pinned: a spawn, a removal and a pin
\* have all acted on the counter's session
C16_Witness ==
    /\ lives < MaxLives
    /\ Pinned(world) # {}
    /\ swordsOnScreen = 1

\* C17: between two consecutive restarts (or between start and the first restart)
\* saveScore runs at most once.
C17_SavedOncePerSession == saves <= 1

\* C18: between handler executions isPlaying is true if and only if lives > 0.
C18_PlayingIffLives == pc = "idle" => (isPlaying <=> lives > 0)

C18_Witness ==
    /\ pc = "idle"
    /\ ~isPlaying
    /\ lives <= 0
    /\ saves > 0

\* C19: a step that is taken in GameOver, outside the boundary check that ended
\* the session, and that is not a restart leaves lives, the score, highScores and
\* lastSpawnTime unchanged and removes no body, while the engine still moves the
\* bodies; a simulation step that starts in GameOver visits no body.
C19_GameOverFrozen ==
    [][(~isPlaying /\ pc # "beforeUpdate" /\ ~Reset) =>
          /\ UNCHANGED <<lives, swordsOnScreen, highScores, lastSpawnTime, storage>>
          /\ Ids(world') = Ids(world)
          /\ pc' # "beforeUpdate"]_vars

\* in GameOver a blade that the engine moved past the threshold is still in the
\* world after the next beforeUpdate
C19_Witness ==
    /\ ~isPlaying
    /\ pc = "update"
    /\ pending = <<>>
    /\ \E i \in Blades(world) : FellIntoVoid(world[i], canvasHeight)

=============================================================================
